---- MODULE Spec2Model ----
(***************************************************************************)
(* A model of zpet: the shape matcher and command dispatch of command.rs,  *)
(* the bot loop and State of bot.rs, and the notice codec, line wrapping   *)
(* and receiver lifecycle of zephyr.rs.                                    *)
(*                                                                         *)
(* Text is a sequence of one-character strings.  An Option<T> is a         *)
(* sequence of length at most one: None is << >>, Some(v) is <<v>>.        *)
(***************************************************************************)
EXTENDS Integers, Sequences, FiniteSets, TLC

None == << >>

Some(v) == <<v>>

Unwrap(o) == o[1]

\* The element of a set of one element.  Only({e : v \in {d}}) is e with v
\* bound to the value of d: it is LET v == d IN e with d computed once,
\* which keeps the loops that thread an accumulator linear.
Only(S) == CHOOSE r \in S : TRUE

(***************************************************************************)
(* Characters.                                                             *)
(***************************************************************************)
NL == "\n"

Letters ==
    {"a", "b", "c", "d", "e", "f", "g", "h", "i", "j", "k", "l", "m",
     "n", "o", "p", "q", "r", "s", "t", "u", "v", "w", "x", "y", "z"}

\* \w of the regex crate, on the characters the model uses
WordCh == Letters \cup {"_"}

\* [ \w]
SpaceWordCh == WordCh \cup {" "}

\* [\w-.] : a word character, '-' or '.'
BareArgCh == WordCh \cup {"-", "."}

Punct == {",", ".", "!", "(", ")", "{", "}", "-", ">", "#", ":", "'"}

AllCh == WordCh \cup Punct \cup {" ", NL}

\* [^'] : any character but the quote
NotQuoteCh == AllCh \ {"'"}

\* char::is_whitespace, on the characters the model uses
WhiteCh == {" ", NL}

(***************************************************************************)
(* The regular expressions of the shapes, as sequences of elements, and    *)
(* Regex::captures: leftmost-first matching with greedy repetition.        *)
(***************************************************************************)
Bol == [k |-> "bol"]

Eol == [k |-> "eol"]

\* a greedy repetition of the class cls, at least min times and, unless
\* many, at most once; captured as group cap when cap # ""
Rep(cls, min, many, cap) == [k |-> "rep", cls |-> cls, min |-> min, many |-> many, cap |-> cap]

\* cls+
Plus(cls) == Rep(cls, 1, TRUE, "")

\* cls*
Star(cls) == Rep(cls, 0, TRUE, "")

\* cls?
Opt1(cls) == Rep(cls, 0, FALSE, "")

\* (?P<cap>cls+)
Group(cap, cls) == Rep(cls, 1, TRUE, cap)

Lit(s) == [k |-> "lit", s |-> s]

\* (?:a|b|...) over literals, tried in order
Alt(ss) == [k |-> "alt", ss |-> ss]

\* (?:body)?  greedy
OptGroup(body) == [k |-> "opt", body |-> body]

NoCaps == [self |-> None, cmd |-> None, a0 |-> None, a1 |-> None]

SetCap(caps, cap, v) ==
    CASE cap = "self" -> [caps EXCEPT !.self = Some(v)]
      [] cap = "cmd"  -> [caps EXCEPT !.cmd = Some(v)]
      [] cap = "0"    -> [caps EXCEPT !.a0 = Some(v)]
      [] cap = "1"    -> [caps EXCEPT !.a1 = Some(v)]
      [] OTHER        -> caps

Max(S) == CHOOSE x \in S : \A y \in S : y <= x

Min(S) == CHOOSE x \in S : \A y \in S : x <= y

\* s has lit at offset pos
HasAt(s, pos, lit) ==
    /\ pos + Len(lit) <= Len(s)
    /\ \A i \in 1..Len(lit) : s[pos + i] = lit[i]

\* number of consecutive characters of cls from offset pos, at most max
RECURSIVE Run(_, _, _, _)
Run(s, pos, cls, max) ==
    IF max = 0 \/ pos >= Len(s) \/ s[pos + 1] \notin cls THEN 0
    ELSE 1 + Run(s, pos + 1, cls, max - 1)

\* The captures of every way elems matches s from offset pos, in the order
\* the regex crate prefers them: a greedy repetition longest first, an
\* optional group taken first, alternatives in the order written.
RECURSIVE Matches(_, _, _, _), RepMatches(_, _, _, _, _, _), AltMatches(_, _, _, _, _, _)
Matches(elems, s, pos, caps) ==
    IF elems = << >> THEN << caps >>
    ELSE LET e == Head(elems)
             rest == Tail(elems)
         IN CASE e.k = "bol" -> IF pos = 0 THEN Matches(rest, s, pos, caps) ELSE << >>
              [] e.k = "eol" -> IF pos = Len(s) THEN Matches(rest, s, pos, caps) ELSE << >>
              [] e.k = "lit" ->
                    IF HasAt(s, pos, e.s) THEN Matches(rest, s, pos + Len(e.s), caps)
                    ELSE << >>
              [] e.k = "alt" -> AltMatches(e.ss, rest, s, pos, caps, 1)
              [] e.k = "opt" ->
                    Matches(e.body \o rest, s, pos, caps) \o Matches(rest, s, pos, caps)
              [] e.k = "rep" ->
                    RepMatches(e, rest, s, pos, caps,
                               Run(s, pos, e.cls, IF e.many THEN Len(s) ELSE 1))

\* the repetition e taken n times, then n - 1 times, ... down to e.min
RepMatches(e, rest, s, pos, caps, n) ==
    IF n < e.min THEN << >>
    ELSE Matches(rest, s, pos + n, SetCap(caps, e.cap, SubSeq(s, pos + 1, pos + n)))
            \o RepMatches(e, rest, s, pos, caps, n - 1)

\* the alternatives ss[i], ss[i + 1], ...
AltMatches(ss, rest, s, pos, caps, i) ==
    IF i > Len(ss) THEN << >>
    ELSE (IF HasAt(s, pos, ss[i]) THEN Matches(rest, s, pos + Len(ss[i]), caps) ELSE << >>)
            \o AltMatches(ss, rest, s, pos, caps, i + 1)

\* the matches that start at offset p, then those that start later
RECURSIVE MatchesFrom(_, _, _)
MatchesFrom(pattern, val, p) ==
    IF p > Len(val) THEN << >>
    ELSE Matches(pattern, val, p, NoCaps) \o MatchesFrom(pattern, val, p + 1)

\* Regex::captures(val): the preferred match at the leftmost offset that has one
Captures(pattern, val) ==
    LET all == MatchesFrom(pattern, val, 0)
    IN IF all = << >> THEN None ELSE Some(Head(all))

(***************************************************************************)
(* command.rs: the shape library and Shape::try_match.                     *)
(***************************************************************************)
Sp == {" "}

EndPunct == {".", "!"}

\* (?:->|\.|#|::)
Accessor == Alt(<< <<"-", ">">>, <<".">>, <<"#">>, <<":", ":">> >>)

order ==
    << << Bol, Group("self", WordCh), Star(Sp), Lit(<<",">>), Star(Sp),
          Group("cmd", WordCh), Star(Sp), Opt1(EndPunct), Eol >>,
       << Bol, Group("cmd", WordCh), Star(Sp), Lit(<<",">>), Star(Sp),
          Group("self", WordCh), Star(Sp), Opt1(EndPunct), Eol >> >>

unary_order ==
    << << Bol, Group("self", WordCh), Star(Sp), Lit(<<",">>), Star(Sp),
          Group("cmd", WordCh), Plus(Sp), Group("0", WordCh),
          Star(Sp), Opt1(EndPunct), Eol >>,
       << Bol, Group("cmd", WordCh), Plus(Sp), Group("0", WordCh),
          Star(Sp), Lit(<<",">>), Star(Sp), Group("self", WordCh),
          Star(Sp), Opt1(EndPunct), Eol >> >>

invoke ==
    << << Bol, Group("self", WordCh), Star(Sp), Lit(<<"(">>),
          Group("cmd", SpaceWordCh), Lit(<<")">>), Eol >>,
       << Bol, Group("cmd", SpaceWordCh), Lit(<<"s">>), Plus(Sp),
          Group("self", WordCh), Eol >>,
       << Bol, Group("self", WordCh), Star(Sp), Lit(<<"-", ">">>), Star(Sp),
          Lit(<<"{">>), Group("cmd", SpaceWordCh), Lit(<<"}">>), Eol >>,
       << Bol, Group("self", WordCh), Star(Sp), Accessor, Star(Sp),
          Group("cmd", WordCh), OptGroup(<< Lit(<<"(", ")">>) >>), Eol >> >>

unary_invoke ==
    << << Bol, Group("self", WordCh), Star(Sp), Accessor, Star(Sp),
          Group("cmd", WordCh),
          OptGroup(<< Lit(<<"(">>), Star(Sp), Group("0", BareArgCh), Star(Sp),
                      Lit(<<")">>) >>),
          Eol >>,
       << Bol, Group("self", WordCh), Star(Sp), Accessor, Star(Sp),
          Group("cmd", WordCh),
          OptGroup(<< Lit(<<"(">>), Star(Sp), Lit(<<"'">>), Group("0", NotQuoteCh),
                      Lit(<<"'">>), Star(Sp), Lit(<<")">>) >>),
          Eol >> >>

binary_invoke ==
    << << Bol, Group("self", WordCh), Star(Sp), Accessor, Star(Sp),
          Group("cmd", WordCh),
          OptGroup(<< Lit(<<"(">>), Star(Sp), Group("0", BareArgCh), Star(Sp),
                      Lit(<<",">>), Star(Sp), Group("1", BareArgCh), Star(Sp),
                      Lit(<<")">>) >>),
          Eol >>,
       << Bol, Group("self", WordCh), Star(Sp), Accessor, Star(Sp),
          Group("cmd", WordCh),
          OptGroup(<< Lit(<<"(">>), Star(Sp), Lit(<<"'">>), Group("0", NotQuoteCh),
                      Lit(<<"'">>), Star(Sp), Lit(<<",">>), Star(Sp), Lit(<<"'">>),
                      Group("1", NotQuoteCh), Lit(<<"'">>), Star(Sp), Lit(<<")">>) >>),
          Eol >> >>

do_with ==
    << << OptGroup(<< Bol, Plus(WordCh), Plus(Sp) >>),
          Group("cmd", WordCh), Plus(Sp), Group("self", WordCh), Plus(Sp),
          Group("0", SpaceWordCh), Opt1(EndPunct), Eol >> >>

Shapes ==
    [order |-> order, unary_order |-> unary_order, invoke |-> invoke,
     unary_invoke |-> unary_invoke, binary_invoke |-> binary_invoke,
     do_with |-> do_with]

ShapeNames == DOMAIN Shapes

\* the loop of try_match that collects the groups "0", "1", ... up to the
\* first missing index
CollectArgs(caps) ==
    IF caps.a0 = None THEN << >>
    ELSE IF caps.a1 = None THEN << Unwrap(caps.a0) >>
    ELSE << Unwrap(caps.a0), Unwrap(caps.a1) >>

\* a variant of PatternResult that does not compare the referent
PatternResultAnyReferent(caps, expected_referent, expected_labels) ==
    IF caps = None THEN None
    ELSE LET c == Unwrap(caps)
             referent == Unwrap(c.self)
             command == Unwrap(c.cmd)
         IN IF command \notin expected_labels THEN None
            ELSE Some([referent |-> referent, command |-> command,
                       args |-> CollectArgs(c)])

\* one iteration of the loop over the patterns: Some(CommandMatch) when the
\* pattern matches and passes both filters, None when the loop continues
PatternResult(caps, expected_referent, expected_labels) ==
    IF caps = None THEN None
    ELSE LET c == Unwrap(caps)
             referent == Unwrap(c.self)
             command == Unwrap(c.cmd)
         IN IF referent # expected_referent THEN None
            ELSE IF command \notin expected_labels THEN None
            ELSE Some([referent |-> referent, command |-> command,
                       args |-> CollectArgs(c)])

TryPattern(pattern, expected_referent, expected_labels, val) ==
    PatternResult(Captures(pattern, val), expected_referent, expected_labels)

\* a variant of the loop that gives up at the first pattern that matches the
\* text, whether or not it passes the filters
RECURSIVE TryPatternsStopping(_, _, _, _, _)
TryPatternsStopping(patterns, i, expected_referent, expected_labels, val) ==
    IF i > Len(patterns) THEN None
    ELSE IF Captures(patterns[i], val) # None
    THEN TryPattern(patterns[i], expected_referent, expected_labels, val)
    ELSE TryPatternsStopping(patterns, i + 1, expected_referent, expected_labels, val)

\* the loop of try_match from pattern i on
RECURSIVE TryPatterns(_, _, _, _, _)
TryPatterns(patterns, i, expected_referent, expected_labels, val) ==
    IF i > Len(patterns) THEN None
    ELSE LET r == TryPattern(patterns[i], expected_referent, expected_labels, val)
         IN IF r # None THEN r
            ELSE TryPatterns(patterns, i + 1, expected_referent, expected_labels, val)

\* Shape::try_match
try_match(patterns, expected_referent, expected_labels, val) ==
    TryPatterns(patterns, 1, expected_referent, expected_labels, val)

(***************************************************************************)
(* zephyr.rs: text helpers (str::split, str::trim, join).                  *)
(***************************************************************************)
\* str::split on any character of seps: n separators give n+1 pieces
RECURSIVE SplitOn(_, _)
SplitOn(s, seps) ==
    LET at == {i \in 1..Len(s) : s[i] \in seps}
    IN IF at = {} THEN << s >>
       ELSE << SubSeq(s, 1, Min(at) - 1) >> \o SplitOn(SubSeq(s, Min(at) + 1, Len(s)), seps)

\* str::splitn(2, sep): cut at the first occurrence of sep, if any
Splitn2(s, sep) ==
    LET at == {p \in 0..Len(s) : HasAt(s, p, sep)}
    IN IF at = {} THEN << s >>
       ELSE << SubSeq(s, 1, Min(at)), SubSeq(s, Min(at) + Len(sep) + 1, Len(s)) >>

\* str::trim
Trim(s) ==
    LET keep == {i \in 1..Len(s) : s[i] \notin WhiteCh}
    IN IF keep = {} THEN << >> ELSE SubSeq(s, Min(keep), Max(keep))

\* [String]::join(sep)
RECURSIVE Join(_, _)
Join(lines, sep) ==
    IF lines = << >> THEN << >>
    ELSE IF Len(lines) = 1 THEN lines[1]
    ELSE lines[1] \o sep \o Join(Tail(lines), sep)

EndsWith(s, c) == Len(s) > 0 /\ s[Len(s)] = c

(***************************************************************************)
(* zephyr.rs: wrap_lines.                                                  *)
(***************************************************************************)
\* the character "\0" that wrap_lines puts after each newline
NUL == "\\0"

\* val.replace("\n", "\n\0")
RECURSIVE MarkNewlines(_)
MarkNewlines(val) ==
    IF val = << >> THEN << >>
    ELSE IF Head(val) = NL THEN << NL, NUL >> \o MarkNewlines(Tail(val))
    ELSE << Head(val) >> \o MarkNewlines(Tail(val))

\* the width test of wrap_lines: the word does not fit on the line
Overflows(line_len, word, limit) == line_len + Len(word) > limit

\* one iteration of the loop of wrap_lines over the words
WrapWord(acc, word, limit) ==
    LET placed ==
            IF Overflows(acc.line_len, word, limit)
            THEN [buf |-> acc.buf \o << NL >> \o word, line_len |-> 0]
            ELSE IF acc.line_len = 0
            THEN [buf |-> acc.buf \o word, line_len |-> acc.line_len]
            ELSE [buf |-> acc.buf \o << " " >> \o word, line_len |-> acc.line_len + 1]
    IN [buf |-> placed.buf,
        line_len |-> IF EndsWith(word, NL) THEN 0 ELSE placed.line_len + Len(word)]

RECURSIVE WrapWords(_, _, _)
WrapWords(acc, words, limit) ==
    IF words = << >> THEN acc
    ELSE Only({WrapWords(next, Tail(words), limit) :
                  next \in {WrapWord(acc, Head(words), limit)}})

wrap_lines(limit, val) ==
    LET words == SplitOn(MarkNewlines(val), {" ", NUL})
    IN SplitOn(WrapWords([buf |-> << >>, line_len |-> 0], words, limit).buf, {NL})

(***************************************************************************)
(* zephyr.rs: Notice and Triplet.                                          *)
(***************************************************************************)
AUTO == <<"A", "U", "T", "O">>

personal == <<"p", "e", "r", "s", "o", "n", "a", "l">>

\* the width Notice::new_outgoing wraps at
DefaultWrap == 70

new_outgoing_with_wrap(opcode, class, instance, sender, zsig, body, wrap) ==
    [opcode |-> opcode, direction |-> "Outgoing", class |-> class,
     instance |-> instance, sender |-> sender, zsig |-> zsig,
     body |-> wrap_lines(wrap, body), incoming_data |-> None]

new_outgoing(opcode, class, instance, sender, zsig, body) ==
    new_outgoing_with_wrap(opcode, class, instance, sender, zsig, body, DefaultWrap)

of_class(class) == [class |-> class, instance |-> None, recipient |-> None]

of_instance(class, instance) ==
    [class |-> class, instance |-> Some(instance), recipient |-> None]

\* Option::unwrap_or
UnwrapOr(o, d) == IF o = None THEN d ELSE Unwrap(o)

\* a variant of Triplet::make_reply that ignores the instance of the triplet
make_reply_personal(t, sender, zsig, body) ==
    new_outgoing(AUTO, t.class, personal, sender, zsig, body)

\* Triplet::make_reply
make_reply(t, sender, zsig, body) ==
    new_outgoing(AUTO, t.class, UnwrapOr(t.instance, personal), sender, zsig, body)

\* Notice::was_sent_to
was_sent_to(notice, t) ==
    t.class = notice.class
        /\ (t.instance = None \/ Unwrap(t.instance) = notice.instance)

\* Notice::triplet
triplet(notice) == of_instance(notice.class, notice.instance)

\* Notice::make_reply
notice_make_reply(notice, sender, zsig, body) ==
    make_reply(triplet(notice), sender, zsig, body)

(***************************************************************************)
(* zephyr.rs: Zephyr::read_raw and Zephyr::read.                           *)
(*                                                                         *)
(* What the receiver hands to one read is a record                         *)
(*   [io |-> TRUE when the pipe read succeeds, utf8 |-> TRUE when the      *)
(*    bytes are valid UTF-8, text |-> the block].                          *)
(* A result is [tag |-> "Ok", val |-> v], [tag |-> "Err"] or, when the     *)
(* code panics, [tag |-> "Panic"].                                         *)
(***************************************************************************)
Ok(v) == [tag |-> "Ok", val |-> v]

Err == [tag |-> "Err", val |-> << >>]

Panic == [tag |-> "Panic", val |-> << >>]

\* reader.read(..)? then String::from_utf8(bytes).unwrap()
read_raw(emitted) ==
    IF ~emitted.io THEN Err
    ELSE IF ~emitted.utf8 THEN Panic
    ELSE Ok(emitted.text)

ColonSpace == <<":", " ">>

K_opcode == <<"o", "p", "c", "o", "d", "e">>

K_class == <<"c", "l", "a", "s", "s">>

K_instance == <<"i", "n", "s", "t", "a", "n", "c", "e">>

K_sender == <<"s", "e", "n", "d", "e", "r">>

K_auth == <<"a", "u", "t", "h">>

K_time == <<"t", "i", "m", "e">>

K_date == <<"d", "a", "t", "e">>

K_fromhost == <<"f", "r", "o", "m", "h", "o", "s", "t">>

K_signature == <<"s", "i", "g", "n", "a", "t", "u", "r", "e">>

K_body == <<"b", "o", "d", "y">>

Keys ==
    {K_opcode, K_class, K_instance, K_sender, K_auth, K_time, K_date,
     K_fromhost, K_signature, K_body}

yes == <<"y", "e", "s">>

NoFields ==
    [opcode |-> << >>, class |-> << >>, instance |-> << >>, sender |-> << >>,
     auth |-> << >>, time |-> << >>, date |-> << >>, host |-> << >>,
     zsig |-> << >>, body |-> << >>, panicked |-> FALSE]

\* the body of the loop of read over the lines: match split[0] { key => field += split[1] }
\* split[1] indexes out of bounds (a panic) when the line has no ": "
ReadLine(f, line) ==
    LET split == Splitn2(line, ColonSpace)
        key == split[1]
    IN IF key \notin Keys THEN f
       ELSE IF Len(split) < 2 THEN [f EXCEPT !.panicked = TRUE]
       ELSE LET v == split[2]
            IN CASE key = K_opcode    -> [f EXCEPT !.opcode = @ \o v]
                 [] key = K_class     -> [f EXCEPT !.class = @ \o v]
                 [] key = K_instance  -> [f EXCEPT !.instance = @ \o v]
                 [] key = K_sender    -> [f EXCEPT !.sender = @ \o v]
                 [] key = K_auth      -> [f EXCEPT !.auth = @ \o v]
                 [] key = K_time      -> [f EXCEPT !.time = @ \o v]
                 [] key = K_date      -> [f EXCEPT !.date = @ \o v]
                 [] key = K_fromhost  -> [f EXCEPT !.host = @ \o v]
                 [] key = K_signature -> [f EXCEPT !.zsig = @ \o v]
                 [] key = K_body      -> [f EXCEPT !.body = Append(@, v)]

RECURSIVE ReadLines(_, _)
ReadLines(f, lines) ==
    IF lines = << >> \/ f.panicked THEN f
    ELSE Only({ReadLines(next, Tail(lines)) : next \in {ReadLine(f, Head(lines))}})

\* Zephyr::read
read(emitted) ==
    LET text == read_raw(emitted)
    IN IF text.tag # "Ok" THEN text
       ELSE LET f == ReadLines(NoFields, SplitOn(text.val, {NL}))
            IN IF f.panicked THEN Panic
               ELSE Ok([opcode |-> f.opcode, direction |-> "Incoming",
                        class |-> f.class, instance |-> f.instance,
                        sender |-> f.sender, zsig |-> f.zsig, body |-> f.body,
                        incoming_data |-> Some([is_auth |-> f.auth = yes,
                                                host |-> f.host])])

(***************************************************************************)
(* zephyr.rs: what the receiver prints for one delivered message under     *)
(* the ruleset FORMAT: one "key: value" line per line of each non-empty    *)
(* field, each body line followed by a space, then "done".                 *)
(***************************************************************************)
FieldLine(key, v) == IF v = << >> THEN << >> ELSE key \o ColonSpace \o v \o << NL >>

RECURSIVE BodyLines(_)
BodyLines(lines) ==
    IF lines = << >> THEN << >>
    ELSE K_body \o ColonSpace \o Head(lines) \o << " ", NL >> \o BodyLines(Tail(lines))

done == <<"d", "o", "n", "e">>

FormatBlock(opcode, class, instance, sender, lines) ==
    FieldLine(K_opcode, opcode) \o FieldLine(K_class, class)
        \o FieldLine(K_instance, instance) \o FieldLine(K_sender, sender)
        \o FieldLine(K_auth, yes) \o BodyLines(lines) \o done \o << NL >>

(***************************************************************************)
(* The bot under study.  Its callbacks are closures supplied by the user   *)
(* of the library; the model draws them from the kinds below.              *)
(***************************************************************************)
topy == <<"t", "o", "p", "y">>

help == <<"h", "e", "l", "p">>

ai == <<"a", "i">>

zoo == <<"z", "o", "o">>

pen == <<"p", "e", "n">>

sit == <<"s", "i", "t">>

pet == <<"p", "e", "t">>

hi == <<"h", "i">>

ok == <<"o", "k">>

kid == <<"k", "i", "d">>

\* bound on the length of pre_command_handlers and of post_command_handlers
MaxHandlers == 1

\* bound on the length of commands
MaxCommands == 2

\* bound on the read failures in a row that the model follows
MaxFailures == 2

\* Handler closures: "follow" moves the bot to the notice's topic and
\* declines; "greet" answers a notice of class help and reports it fired.
HandlerKinds == {"follow", "greet"}

\* Command::new(shape, scope, labels, action)
SitLocal == [shape |-> "order", scope |-> "Local", labels |-> {sit}, action |-> "reply_here"]

SitAnywhere ==
    [shape |-> "order", scope |-> "Everywhere", labels |-> {sit, pet}, action |-> "reply_to"]

PetWith ==
    [shape |-> "do_with", scope |-> "Everywhere", labels |-> {pet}, action |-> "reply_at_class"]

CommandKinds == {SitLocal, SitAnywhere, PetWith}

SeqsUpTo(S, n) == UNION {[1..k -> S] : k \in 0..n}

\* the notices the receiver delivers: opcode, topic and body vary
Opcodes == {<< >>, AUTO}

Topics == {<<help, ai>>, <<help, pen>>, <<zoo, pen>>}

Bodies ==
    { << <<"t", "o", "p", "y", ",", " ", "s", "i", "t", ".">> >>,
      << <<"s", "i", "t", ",", " ", "t", "o", "p", "y">> >>,
      << <<"p", "e", "t", " ", "t", "o", "p", "y", " ", "x">> >>,
      << hi, <<"p", "e", "t", " ", "t", "o", "p", "y", " ", "x", "!">> >>,
      << hi >> }

WellFormed ==
    {[io |-> TRUE, utf8 |-> TRUE, text |-> FormatBlock(o, tp[1], tp[2], kid, b)] :
        o \in Opcodes, tp \in Topics, b \in Bodies}

\* blocks that are not "key: value" lines: a bare key, and bytes that are no text
Malformed ==
    {[io |-> TRUE, utf8 |-> TRUE, text |-> K_class \o ColonSpace \o help \o << NL >> \o K_body \o << NL >>],
     [io |-> TRUE, utf8 |-> TRUE, text |-> K_class \o << NL >> \o done \o << NL >>],
     [io |-> TRUE, utf8 |-> FALSE, text |-> << >>]}

\* a failed read of the receiver's pipe
Broken == {[io |-> FALSE, utf8 |-> TRUE, text |-> << >>]}

Emitted == WellFormed \cup Malformed \cup Broken

\* Zephyr::read on each block the receiver can emit
ReadOutcomes == {[emitted |-> e, result |-> read(e)] : e \in Emitted}

VARIABLES
    state,                  \* Bot.state: name, class, instance, extra
    zio,                    \* State.zio: the Zephyr behind the RefCell
    commands,               \* Bot.commands
    pre_command_handlers,   \* Bot.pre_command_handlers
    post_command_handlers,  \* Bot.post_command_handlers
    pc,                     \* where Bot::run is
    block,                  \* the block read in this turn of the loop, Some(b), or None
    notice,                 \* the notice read in this turn of the loop, Some(n), or None
    log,                    \* the callbacks tried in the tick of that notice
    sent,                   \* the notices given to the sender in that tick
    failures,               \* the read errors reported since the last tick
    call,                   \* the arguments of a library function under test
    ret,                    \* its result, Some(r), or None before the call
    os                      \* the subprocesses, scratch files and pipe outside the bot

vars ==
    << state, zio, commands, pre_command_handlers, post_command_handlers,
       pc, block, notice, log, sent, failures, call, ret, os >>

(***************************************************************************)
(* bot.rs: State.                                                          *)
(***************************************************************************)
\* State::location
location(st) == of_instance(st.class, st.instance)

\* a variant of move_to that also subscribes to the triplet it moves to
move_to_subscribing(st, to) ==
    [st EXCEPT !.class = to.class, !.instance = UnwrapOr(to.instance, personal),
               !.zio.subs = Append(@, to)]

\* State::move_to
move_to(st, to) ==
    [st EXCEPT !.class = to.class, !.instance = UnwrapOr(to.instance, personal)]

\* the zsig_func of Builder::new
zsig_func == << >>

\* The effect of a callback on the State and on the outside: the State
\* after, the notices given to the sender, and whether the call panicked.
Effect(st, out, panicked) == [st |-> st, out |-> out, panicked |-> panicked]

\* State::zwrite: Zephyr::zwrite(..).expect(..); senderUp tells whether the
\* sender can be spawned and waited on
zwrite(st, n, senderUp) ==
    IF senderUp THEN Effect(st, << n >>, FALSE)
    ELSE Effect(st, << >>, TRUE)

\* State::reply_at_zsigned
reply_at_zsigned(st, t, zsig, body, senderUp) ==
    zwrite(st, make_reply(t, st.name, zsig, body), senderUp)

\* State::reply_at
reply_at(st, t, body, senderUp) == reply_at_zsigned(st, t, zsig_func, body, senderUp)

\* State::reply_to
reply_to(st, n, body, senderUp) == reply_at(st, triplet(n), body, senderUp)

\* State::reply_here
reply_here(st, body, senderUp) == reply_at(st, location(st), body, senderUp)

(***************************************************************************)
(* command.rs: Handler::try_exec and Command::try_exec.  A result is       *)
(*   [st, out, panicked, invoked, fired, cm].                              *)
(***************************************************************************)
Tried(eff, invoked, fired, cm) ==
    [st |-> eff.st, out |-> eff.out, panicked |-> eff.panicked,
     invoked |-> invoked, fired |-> fired /\ ~eff.panicked, cm |-> cm]

\* the closure of a Handler: its effect and the boolean it returns
HandlerAction(kind, st, n, senderUp) ==
    CASE kind = "follow" -> [eff |-> Effect(move_to(st, triplet(n)), << >>, FALSE), ret |-> FALSE]
      [] kind = "greet" ->
            IF n.class = help
            THEN [eff |-> zwrite(st, notice_make_reply(n, st.name, zsig_func, hi), senderUp),
                  ret |-> TRUE]
            ELSE [eff |-> Effect(st, << >>, FALSE), ret |-> FALSE]

\* Handler::try_exec
handler_try_exec(kind, st, n, senderUp) ==
    LET r == HandlerAction(kind, st, n, senderUp)
    IN Tried(r.eff, TRUE, r.ret, None)

\* the closure of a Command
CommandAction(kind, st, n, cm, senderUp) ==
    CASE kind = "reply_here" -> reply_here(st, ok, senderUp)
      [] kind = "reply_to" -> reply_to(st, n, ok, senderUp)
      [] kind = "reply_at_class" -> reply_at(st, of_class(n.class), ok, senderUp)
      [] kind = "move_to" -> Effect(move_to(st, triplet(n)), << >>, FALSE)

\* a variant of SameTopic that compares the class alone
SameClass(st, n) == st.class = n.class

\* the topic test of a Local command
SameTopic(st, n) == st.class = n.class /\ st.instance = n.instance

\* the text a command matches against: notice.body.join("\n").trim()
BodyText(n) == Trim(Join(n.body, << NL >>))

\* try_match of every registered shape and label set on every body the
\* receiver can deliver, for the bot named topy (computed once)
MatchTable ==
    {<< key, try_match(Shapes[key[1]], topy, key[2], key[3]) >> :
        key \in {<< cmd.shape, cmd.labels, BodyText(o.result.val) >> :
                    cmd \in CommandKinds,
                    o \in {x \in ReadOutcomes : x.result.tag = "Ok"}}}

\* self.shape.try_match(&state.name, &labels, &body)
ShapeMatch(cmd, st, n) ==
    LET key == << cmd.shape, cmd.labels, BodyText(n) >>
        known == {e \in MatchTable : e[1] = key}
    IN IF st.name = topy /\ known # {}
       THEN (CHOOSE e \in known : TRUE)[2]
       ELSE try_match(Shapes[cmd.shape], st.name, cmd.labels, BodyText(n))

\* a variant of Command::try_exec that reports false after running the action
command_try_exec_unfired(cmd, st, n, senderUp) ==
    LET m == ShapeMatch(cmd, st, n)
    IN IF m = None THEN Tried(Effect(st, << >>, FALSE), FALSE, FALSE, None)
       ELSE IF cmd.scope = "Local" /\ ~SameTopic(st, n)
       THEN Tried(Effect(st, << >>, FALSE), FALSE, FALSE, None)
       ELSE Tried(CommandAction(cmd.action, st, n, Unwrap(m), senderUp), TRUE, FALSE, m)

\* a variant of Command::try_exec that runs the action before the scope test
command_try_exec_eager(cmd, st, n, senderUp) ==
    LET m == ShapeMatch(cmd, st, n)
    IN IF m = None THEN Tried(Effect(st, << >>, FALSE), FALSE, FALSE, None)
       ELSE IF cmd.scope = "Local" /\ ~SameTopic(st, n)
       THEN Tried(CommandAction(cmd.action, st, n, Unwrap(m), senderUp), TRUE, FALSE, None)
       ELSE Tried(CommandAction(cmd.action, st, n, Unwrap(m), senderUp), TRUE, TRUE, m)

\* Command::try_exec
command_try_exec(cmd, st, n, senderUp) ==
    LET m == ShapeMatch(cmd, st, n)
    IN IF m = None THEN Tried(Effect(st, << >>, FALSE), FALSE, FALSE, None)
       ELSE IF cmd.scope = "Local" /\ ~SameTopic(st, n)
       THEN Tried(Effect(st, << >>, FALSE), FALSE, FALSE, None)
       ELSE Tried(CommandAction(cmd.action, st, n, Unwrap(m), senderUp), TRUE, TRUE, m)

(***************************************************************************)
(* bot.rs: Bot::tick.  A tick in progress is                               *)
(*   [st, log, sent, returned, panicked].                                  *)
(***************************************************************************)
Entry(phase, i, st, r) ==
    [phase |-> phase, index |-> i, class |-> st.class, instance |-> st.instance,
     invoked |-> r.invoked, fired |-> r.fired, cm |-> r.cm]

After(acc, phase, i, r) ==
    [st |-> r.st, log |-> Append(acc.log, Entry(phase, i, acc.st, r)),
     sent |-> acc.sent \o r.out, returned |-> r.fired, panicked |-> r.panicked]

\* for hdl in handlers.iter() { if hdl.try_exec(..) { return } }
RECURSIVE RunHandlers(_, _, _, _, _, _)
RunHandlers(phase, handlers, i, acc, n, senderUp) ==
    IF i > Len(handlers) \/ acc.returned \/ acc.panicked THEN acc
    ELSE Only({RunHandlers(phase, handlers, i + 1, After(acc, phase, i, r), n, senderUp) :
                  r \in {handler_try_exec(handlers[i], acc.st, n, senderUp)}})

\* a variant of RunCommands that goes through the commands although an
\* earlier callback has fired
RECURSIVE RunCommandsAll(_, _, _, _, _)
RunCommandsAll(cmds, i, acc, n, senderUp) ==
    IF i > Len(cmds) \/ acc.panicked THEN acc
    ELSE Only({RunCommandsAll(cmds, i + 1, After(acc, "cmd", i, r), n, senderUp) :
                  r \in {command_try_exec(cmds[i], acc.st, n, senderUp)}})

\* for cmd in self.commands.iter() { if cmd.try_exec(..) { return } }
RECURSIVE RunCommands(_, _, _, _, _)
RunCommands(cmds, i, acc, n, senderUp) ==
    IF i > Len(cmds) \/ acc.returned \/ acc.panicked THEN acc
    ELSE Only({RunCommands(cmds, i + 1, After(acc, "cmd", i, r), n, senderUp) :
                  r \in {command_try_exec(cmds[i], acc.st, n, senderUp)}})

\* a variant of IsAuto that compares with the opcode in lower case
IsAutoLower(n) == n.opcode = <<"a", "u", "t", "o">>

\* the test Bot::tick makes first
IsAuto(n) == n.opcode = AUTO

\* Bot::tick
tick(st, pre, cmds, post, n, senderUp) ==
    LET start == [st |-> st, log |-> << >>, sent |-> << >>,
                  returned |-> FALSE, panicked |-> FALSE]
    IN IF IsAuto(n) THEN start
       ELSE Only({RunHandlers("post", post, 1, a2, n, senderUp) :
                     a2 \in {RunCommands(cmds, 1, RunHandlers("pre", pre, 1, start, n, senderUp),
                                          n, senderUp)}})

(***************************************************************************)
(* bot.rs: Bot::new (through the Builder) and Bot::run.                    *)
(***************************************************************************)
NoCall == [f |-> "none"]

\* the two scratch files of a Zephyr
ScratchFiles == {"format_file", "sub_file"}

\* The world outside the bot before any Zephyr exists: no receiver
\* subprocess, no scratch file, nothing in the pipe of the receiver's
\* standard output, no sender subprocess.  emitted counts the blocks the
\* running receiver has printed, first tells that the running receiver is
\* the one Zephyr::new started.
Outside ==
    [receivers |-> 0, files |-> {}, pipe |-> << >>, emitted |-> 0,
     first |-> FALSE, senders |-> 0]

Init ==
    /\ state = [name |-> topy, class |-> help, instance |-> ai, extra |-> 0]
    /\ zio = [subs |-> << of_class(help), of_class(zoo) >>, child |-> TRUE,
              format_file |-> TRUE, sub_file |-> TRUE]
    /\ commands \in SeqsUpTo(CommandKinds, MaxCommands)
    /\ pre_command_handlers \in SeqsUpTo(HandlerKinds, MaxHandlers)
    /\ post_command_handlers \in SeqsUpTo(HandlerKinds, MaxHandlers)
    /\ pc = "read"
    /\ block = None
    /\ notice = None
    /\ log = << >>
    /\ sent = << >>
    /\ failures = 0
    /\ call = NoCall
    /\ ret = None
    /\ os = [Outside EXCEPT !.receivers = 1, !.files = ScratchFiles]

\* the block of run that borrows the Zephyr, reads and drops the borrow,
\* and the match on its result
Read ==
    /\ pc = "read"
    /\ \E o \in ReadOutcomes :
          /\ block' = Some(o.emitted)
          /\ CASE o.result.tag = "Ok" ->
                    /\ pc' = "tick"
                    /\ notice' = Some(o.result.val)
               [] o.result.tag = "Err" ->
                    /\ failures < MaxFailures
                    /\ pc' = "report"
                    /\ notice' = None
               [] o.result.tag = "Panic" ->
                    /\ pc' = "aborted"
                    /\ notice' = None
    /\ UNCHANGED << state, zio, commands, pre_command_handlers,
                    post_command_handlers, log, sent, failures, call, ret, os >>

\* Ok(notice) => self.tick(notice)
Tick ==
    /\ pc = "tick"
    /\ \E senderUp \in BOOLEAN :
          \E t \in {tick(state, pre_command_handlers, commands,
                         post_command_handlers, Unwrap(notice), senderUp)} :
             /\ state' = t.st
             /\ log' = t.log
             /\ sent' = t.sent
             /\ pc' = IF t.panicked THEN "aborted" ELSE "sleep"
    /\ failures' = 0
    /\ UNCHANGED << zio, commands, pre_command_handlers, post_command_handlers,
                    block, notice, call, ret, os >>

\* thread::sleep(Duration::from_millis(100)), and the next turn of the loop
Sleep ==
    /\ pc = "sleep"
    /\ pc' = "read"
    /\ block' = None
    /\ notice' = None
    /\ log' = << >>
    /\ sent' = << >>
    /\ UNCHANGED << state, zio, commands, pre_command_handlers,
                    post_command_handlers, failures, call, ret, os >>

\* a variant of Report in which the error ends run
ReportAborts ==
    /\ pc = "report"
    /\ pc' = "aborted"
    /\ block' = None
    /\ failures' = failures + 1
    /\ UNCHANGED << state, zio, commands, pre_command_handlers,
                    post_command_handlers, notice, log, sent, call, ret, os >>

\* Err(e) => eprintln!("{:?}", e), and the next turn of the loop
Report ==
    /\ pc = "report"
    /\ pc' = "read"
    /\ block' = None
    /\ failures' = failures + 1
    /\ UNCHANGED << state, zio, commands, pre_command_handlers,
                    post_command_handlers, notice, log, sent, call, ret, os >>

Next == Read \/ Tick \/ Sleep \/ Report

Spec == Init /\ [][Next]_vars

(***************************************************************************)
(* The library functions on their own: one call of Shape::try_match or of  *)
(* wrap_lines on arguments drawn from the sets below, then its return.     *)
(***************************************************************************)
alice == <<"a", "l", "i", "c", "e">>

bob == <<"b", "o", "b">>

dance == <<"d", "a", "n", "c", "e">>

ex == <<"x">>

\* The surface syntax of each shape, one form per spelling shown in the
\* comments of the patterns: [shape, form, arity, arg], arg the class of
\* tokens the form admits as arguments.
Forms ==
    {[shape |-> "order",         form |-> "topy, sit!",        arity |-> 0, arg |-> "none"],
     [shape |-> "order",         form |-> "sit, topy!",        arity |-> 0, arg |-> "none"],
     [shape |-> "unary_order",   form |-> "topy, get x!",      arity |-> 1, arg |-> "word"],
     [shape |-> "unary_order",   form |-> "get x, topy!",      arity |-> 1, arg |-> "word"],
     [shape |-> "invoke",        form |-> "topy(pet)",         arity |-> 0, arg |-> "none"],
     [shape |-> "invoke",        form |-> "pets topy",         arity |-> 0, arg |-> "none"],
     [shape |-> "invoke",        form |-> "topy->{pet}",       arity |-> 0, arg |-> "none"],
     [shape |-> "invoke",        form |-> "topy.pet",          arity |-> 0, arg |-> "none"],
     [shape |-> "invoke",        form |-> "topy.pet()",        arity |-> 0, arg |-> "none"],
     [shape |-> "unary_invoke",  form |-> "topy.pet(x)",       arity |-> 1, arg |-> "bare"],
     [shape |-> "unary_invoke",  form |-> "topy.pet('x')",     arity |-> 1, arg |-> "text"],
     [shape |-> "binary_invoke", form |-> "topy.pet(x, y)",    arity |-> 2, arg |-> "bare"],
     [shape |-> "binary_invoke", form |-> "topy.pet('x', 'y')", arity |-> 2, arg |-> "text"],
     [shape |-> "do_with",       form |-> "pet topy x",        arity |-> 1, arg |-> "words"]}

\* referent r, command c and arguments a written in the form
Format(form, r, c, a) ==
    CASE form = "topy, sit!"    -> r \o <<",", " ">> \o c \o <<"!">>
      [] form = "sit, topy!"    -> c \o <<",", " ">> \o r \o <<"!">>
      [] form = "topy, get x!"  -> r \o <<",", " ">> \o c \o <<" ">> \o a[1] \o <<"!">>
      [] form = "get x, topy!"  -> c \o <<" ">> \o a[1] \o <<",", " ">> \o r \o <<"!">>
      [] form = "topy(pet)"     -> r \o <<"(">> \o c \o <<")">>
      [] form = "pets topy"     -> c \o <<"s", " ">> \o r
      [] form = "topy->{pet}"   -> r \o <<"-", ">", "{">> \o c \o <<"}">>
      [] form = "topy.pet"      -> r \o <<".">> \o c
      [] form = "topy.pet()"    -> r \o <<".">> \o c \o <<"(", ")">>
      [] form = "topy.pet(x)"   -> r \o <<".">> \o c \o <<"(">> \o a[1] \o <<")">>
      [] form = "topy.pet('x')" ->
            r \o <<".">> \o c \o <<"(", "'">> \o a[1] \o <<"'", ")">>
      [] form = "topy.pet(x, y)" ->
            r \o <<".">> \o c \o <<"(">> \o a[1] \o <<",", " ">> \o a[2] \o <<")">>
      [] form = "topy.pet('x', 'y')" ->
            r \o <<".">> \o c \o <<"(", "'">> \o a[1] \o <<"'", ",", " ", "'">>
                \o a[2] \o <<"'", ")">>
      [] form = "pet topy x"    -> c \o <<" ">> \o r \o <<" ">> \o a[1]

\* the tokens the calls are made with
Referents == {topy, alice}

Labels == {sit, pet, dance}

ArgTokens ==
    [none |-> {},
     word |-> {ex, hi},
     bare |-> {ex, <<"a", ".", "b">>, <<"a", "-", "b">>},
     text |-> {ex, <<"a", " ", "b">>, <<"a", ".", " ", "b", "!">>},
     words |-> {ex, <<"a", " ", "b">>, <<"h", "i", " ", "a", " ", "b">>}]

ArgSeqs(f) == [1..f.arity -> ArgTokens[f.arg]]

RoundTripCalls ==
    UNION {{[f |-> "round_trip", shape |-> f.shape, form |-> f.form, referent |-> r,
             command |-> c, args |-> a, val |-> Format(f.form, r, c, a)] :
                r \in Referents, c \in Labels, a \in ArgSeqs(f)} : f \in Forms}

alice_sit == alice \o <<",", " ">> \o sit

alice_dance == alice \o <<",", " ">> \o dance

sit_topy == sit \o <<",", " ">> \o topy

\* the calls of try_match: every shape on texts in every form and on the
\* texts "alice, sit" and "alice, dance", and order on "sit, topy"
MatchReferents == {alice, bob, sit}

LabelSets == {{sit}, {dance}, {alice, sit}}

MatchTexts ==
    {c.val : c \in {d \in RoundTripCalls : d.referent = alice /\ d.command # pet}}
        \cup {alice_sit, alice_dance, hi}

MatchCalls ==
    {[f |-> "try_match", shape |-> s, expected_referent |-> r,
      expected_labels |-> ls, val |-> v] :
        s \in ShapeNames, r \in MatchReferents, ls \in LabelSets, v \in MatchTexts}
        \cup {[f |-> "try_match", shape |-> "order", expected_referent |-> topy,
                expected_labels |-> {sit}, val |-> sit_topy]}

\* the calls of wrap_lines
one_two == <<"o", "n", "e", " ", "t", "w", "o">>

one_two_three == one_two \o <<" ", "t", "h", "r", "e", "e">>

\* bound on the width limit of the calls of wrap_lines
MaxLimit == 10

WrapTexts ==
    {one_two_three, one_two, <<"h", "e", "l", "l", "o">>,
     <<"a", " ", "b", " ", "c", " ", "d">>,
     <<"o", "n", "e", NL, "t", "w", "o", " ", "t", "h", "r", "e", "e">>,
     <<"a", " ", " ", "b">>, << >>}

WrapCalls == {[f |-> "wrap_lines", limit |-> l, val |-> v] : l \in 1..MaxLimit, v \in WrapTexts}

\* a command whose action changes the State: the bot moves to where it is
\* told to sit
SitThere ==
    [shape |-> "order", scope |-> "Everywhere", labels |-> {sit}, action |-> "move_to"]

\* the calls of Command::try_exec: a command, a State, a notice read, and
\* whether the sender can be spawned and waited on
ExecStates ==
    {[name |-> topy, class |-> tp[1], instance |-> tp[2], extra |-> 0] : tp \in Topics}

ExecCalls ==
    {[f |-> "try_exec", cmd |-> cmd, st |-> st, n |-> o.result.val, senderUp |-> up] :
        cmd \in CommandKinds \cup {SitThere}, st \in ExecStates,
        o \in {x \in ReadOutcomes : x.result.tag = "Ok"}, up \in BOOLEAN}

\* the calls of move_to: a State with its Zephyr, and the triplet to move to
MoveStates ==
    {[name |-> topy, class |-> tp[1], instance |-> tp[2], extra |-> e,
      zio |-> [subs |-> << of_class(help), of_class(zoo) >>, child |-> TRUE,
               format_file |-> TRUE, sub_file |-> TRUE]] :
        tp \in Topics, e \in {0, 1}}

MoveTargets ==
    {of_class(c) : c \in {help, zoo}}
        \cup {of_instance(c, i) : c \in {help, zoo}, i \in {ai, pen}}

MoveCalls == {[f |-> "move_to", st |-> st, to |-> to] : st \in MoveStates, to \in MoveTargets}

InitLib ==
    /\ state = [name |-> topy, class |-> help, instance |-> ai, extra |-> 0]
    /\ zio = [subs |-> << >>, child |-> FALSE, format_file |-> FALSE, sub_file |-> FALSE]
    /\ commands = << >>
    /\ pre_command_handlers = << >>
    /\ post_command_handlers = << >>
    /\ pc = "lib"
    /\ block = None
    /\ notice = None
    /\ log = << >>
    /\ sent = << >>
    /\ failures = 0
    /\ call = NoCall
    /\ ret = None
    /\ os = Outside

LibUnchanged ==
    UNCHANGED << state, zio, commands, pre_command_handlers, post_command_handlers,
                 pc, block, notice, log, sent, failures, os >>

\* shape.try_match(expected_referent, expected_labels, val)
CallTryMatch ==
    /\ call = NoCall
    /\ \E c \in MatchCalls :
          /\ call' = c
          /\ ret' = Some(try_match(Shapes[c.shape], c.expected_referent,
                                   c.expected_labels, c.val))
    /\ LibUnchanged

\* shape.try_match(referent, [command], the text in one of the shape's forms)
CallFormatted ==
    /\ call = NoCall
    /\ \E c \in RoundTripCalls :
          /\ call' = c
          /\ ret' = Some(try_match(Shapes[c.shape], c.referent, {c.command}, c.val))
    /\ LibUnchanged

\* wrap_lines(limit, val)
CallWrapLines ==
    /\ call = NoCall
    /\ \E c \in WrapCalls :
          /\ call' = c
          /\ ret' = Some(wrap_lines(c.limit, c.val))
    /\ LibUnchanged

\* state.move_to(to)
CallMoveTo ==
    /\ call = NoCall
    /\ \E c \in MoveCalls :
          /\ call' = c
          /\ ret' = Some(move_to(c.st, c.to))
    /\ LibUnchanged

\* cmd.try_exec(state, notice)
CallTryExec ==
    /\ call = NoCall
    /\ \E c \in ExecCalls :
          /\ call' = c
          /\ ret' = Some(command_try_exec(c.cmd, c.st, c.n, c.senderUp))
    /\ LibUnchanged

Return ==
    /\ call # NoCall
    /\ call' = NoCall
    /\ ret' = None
    /\ LibUnchanged

NextLib == CallTryMatch \/ CallFormatted \/ CallWrapLines \/ CallMoveTo
        \/ CallTryExec \/ Return

LibSpec == InitLib /\ [][NextLib]_vars

(***************************************************************************)
(* zephyr.rs: the lifecycle of a Zephyr (new, restart, kill, read, Drop)    *)
(* against the world outside.  The receiver prints its blocks into the     *)
(* pipe on its own schedule; the blocks are numbered in the order the      *)
(* running receiver prints them.  An operation on a Zephyr z in the world  *)
(* w gives [zio, os, tag], tag being "Ok", "Err" or "Panic".               *)
(*                                                                         *)
(* Child::kill of a child that was never waited for, and the removal of a  *)
(* scratch file by NamedTempFile, are taken to succeed.                    *)
(***************************************************************************)
MaxBlocks == 3

\* a variant of kill that forgets the handle and leaves the process alone
kill_handle_only(z, w) ==
    [zio |-> [z EXCEPT !.child = FALSE], os |-> w, tag |-> "Ok"]

\* Zephyr::kill; the pipe goes with the Child
kill(z, w) ==
    [zio |-> [z EXCEPT !.child = FALSE],
     os  |-> IF z.child
               THEN [w EXCEPT !.receivers = @ - 1, !.pipe = << >>,
                              !.emitted = 0, !.first = FALSE]
               ELSE w,
     tag |-> "Ok"]

\* Zephyr::restart; spawnOk tells whether zwgc could be spawned
restart(z, w, spawnOk) ==
    IF spawnOk
      THEN [zio |-> [kill(z, w).zio EXCEPT !.child = TRUE],
            os  |-> [kill(z, w).os EXCEPT !.receivers = @ + 1, !.pipe = << >>,
                                          !.emitted = 0, !.first = FALSE],
            tag |-> "Ok"]
      ELSE [kill(z, w) EXCEPT !.tag = "Err"]

\* a variant of Drop that closes the scratch files and leaves the receiver
drop_files_only(z, w) ==
    [zio |-> [z EXCEPT !.format_file = FALSE, !.sub_file = FALSE],
     os  |-> [w EXCEPT !.files = @ \ ScratchFiles],
     tag |-> "Ok"]

\* Drop for Zephyr: kill, then close both scratch files
drop(z, w) ==
    [zio |-> [kill(z, w).zio EXCEPT !.format_file = FALSE, !.sub_file = FALSE],
     os  |-> [kill(z, w).os EXCEPT !.files = @ \ ScratchFiles],
     tag |-> "Ok"]

\* a variant of read that kills the receiver when the pipe read fails
pipe_read_killing(z, w, outcome) ==
    IF ~z.child THEN [zio |-> z, os |-> w, tag |-> "Panic", got |-> << >>]
    ELSE IF outcome = "Err" THEN [kill(z, w) EXCEPT !.tag = "Err"] @@ [got |-> << >>]
    ELSE [zio |-> z, os |-> [w EXCEPT !.pipe = << >>], tag |-> outcome, got |-> w.pipe]

\* The loop of read_raw on the pipe: the BufReader hands over what the
\* pipe holds, 512 bytes at a time, until a short read; nothing in it looks
\* for the "done" that ends a block.  outcome is "Ok", "Err" when the pipe
\* read fails, "Panic" when the bytes read do not decode (from_utf8, or a
\* line without ": " under a key).  On a Zephyr without child the unwrap
\* of read_raw panics.
pipe_read(z, w, outcome) ==
    IF ~z.child THEN [zio |-> z, os |-> w, tag |-> "Panic", got |-> << >>]
    ELSE IF outcome = "Err" THEN [zio |-> z, os |-> w, tag |-> "Err", got |-> << >>]
    ELSE [zio |-> z, os |-> [w EXCEPT !.pipe = << >>], tag |-> outcome, got |-> w.pipe]

\* a read can return: there are bytes in the pipe, or it fails, or panics
CanRead(z, w, outcome) == ~z.child \/ outcome = "Err" \/ w.pipe # << >>

ReadTags == {"Ok", "Err", "Panic"}

\* Zephyr::new as one step: the scratch files, restart()?, read()? of the
\* first block the receiver prints, Ok(zio); a Zephyr put together is
\* dropped on every other way out
Zephyr_new(z, w, tmpOk, writeOk, spawnOk, outcome) ==
    IF ~tmpOk THEN [zio |-> z, os |-> w, tag |-> "Panic"]
    ELSE IF ~writeOk THEN [zio |-> z, os |-> w, tag |-> "Err"]
    ELSE Only({Only({IF r.tag # "Ok"
                       THEN [drop(r.zio, r.os) EXCEPT !.tag = "Err"]
                     ELSE IF p.tag # "Ok"
                       THEN [drop(p.zio, p.os) EXCEPT !.tag = p.tag]
                     ELSE [zio |-> p.zio, os |-> p.os, tag |-> "Ok"]
                     : p \in {pipe_read(r.zio, [r.os EXCEPT !.pipe = << 1 >>],
                                        outcome)}})
               : r \in {restart([z EXCEPT !.format_file = TRUE, !.sub_file = TRUE],
                                [w EXCEPT !.files = ScratchFiles], spawnOk)}})

SubLists == { << >>, << of_class(help) >>, << of_class(help), of_class(zoo) >> }

InitTransport ==
    /\ state = [name |-> topy, class |-> help, instance |-> ai, extra |-> 0]
    /\ zio \in {[subs |-> s, child |-> FALSE, format_file |-> FALSE,
                 sub_file |-> FALSE] : s \in SubLists}
    /\ commands = << >>
    /\ pre_command_handlers = << >>
    /\ post_command_handlers = << >>
    /\ pc = "new"
    /\ block = None
    /\ notice = None
    /\ log = << >>
    /\ sent = << >>
    /\ failures = 0
    /\ call = [f |-> "new"]
    /\ ret = None
    /\ os = Outside

TransportUnchanged ==
    UNCHANGED << state, commands, pre_command_handlers, post_command_handlers,
                 notice, sent, failures >>

\* new: the two NamedTempFile::new().expect(..); a file created before the
\* panic is removed when its NamedTempFile is dropped by the unwinding
NewCreate ==
    /\ pc = "new"
    /\ \E tmpOk \in BOOLEAN :
          IF tmpOk
            THEN /\ os' = [os EXCEPT !.files = ScratchFiles]
                 /\ pc' = "write"
                 /\ ret' = ret
            ELSE /\ os' = os
                 /\ pc' = "aborted"
                 /\ ret' = Some([tag |-> "Panic", at |-> "create"])
    /\ call' = [f |-> "new"]
    /\ UNCHANGED << zio, block, log >>
    /\ TransportUnchanged

\* new: write!(format_file, ..)?, the loop of write!(sub_file, ..)?, and
\* the Zephyr put together; on Err the two NamedTempFile locals are dropped
NewWrite ==
    /\ pc = "write"
    /\ \E writeOk \in BOOLEAN :
          IF writeOk
            THEN /\ zio' = [zio EXCEPT !.format_file = TRUE, !.sub_file = TRUE]
                 /\ os' = os
                 /\ pc' = "restart"
                 /\ ret' = ret
            ELSE /\ zio' = zio
                 /\ os' = [os EXCEPT !.files = @ \ ScratchFiles]
                 /\ pc' = "failed"
                 /\ ret' = Some([tag |-> "Err", at |-> "write"])
    /\ UNCHANGED << call, block, log >>
    /\ TransportUnchanged

\* new: zio.restart()?; on Err the Zephyr is dropped
NewRestart ==
    /\ pc = "restart"
    /\ \E spawnOk \in BOOLEAN :
          \E r \in {restart(zio, os, spawnOk)} :
             IF r.tag = "Ok"
               THEN /\ zio' = r.zio
                    /\ os' = [r.os EXCEPT !.first = TRUE]
                    /\ pc' = "first_read"
                    /\ ret' = ret
               ELSE /\ zio' = drop(r.zio, r.os).zio
                    /\ os' = drop(r.zio, r.os).os
                    /\ pc' = "failed"
                    /\ ret' = Some([tag |-> "Err", at |-> "restart"])
    /\ UNCHANGED << call, block, log >>
    /\ TransportUnchanged

\* new: zio.read()?, the notice dropped, Ok(zio); on Err, and when the
\* panic of read unwinds, the Zephyr is dropped
NewRead ==
    /\ pc = "first_read"
    /\ \E outcome \in ReadTags :
          /\ CanRead(zio, os, outcome)
          /\ \E r \in {pipe_read(zio, os, outcome)} :
                IF r.tag = "Ok"
                  THEN /\ zio' = r.zio
                       /\ os' = r.os
                       /\ pc' = "ready"
                       /\ ret' = Some([tag |-> "Ok", discarded |-> r.got])
                  ELSE /\ zio' = drop(r.zio, r.os).zio
                       /\ os' = drop(r.zio, r.os).os
                       /\ pc' = IF r.tag = "Err" THEN "failed" ELSE "aborted"
                       /\ ret' = Some([tag |-> r.tag, at |-> "read"])
    /\ UNCHANGED << call, block, log >>
    /\ TransportUnchanged

\* the running receiver prints its next block
Emit ==
    /\ os.receivers > 0
    /\ os.emitted < MaxBlocks
    /\ os' = [os EXCEPT !.emitted = @ + 1, !.pipe = Append(@, os.emitted + 1)]
    /\ UNCHANGED << zio, pc, call, ret, block, log >>
    /\ TransportUnchanged

\* zio.read() of Bot::run; log keeps what each read of the receiver that
\* new started has returned.  The panic of read unwinds through the Bot.
ReadNext ==
    /\ pc = "ready"
    /\ \E outcome \in ReadTags :
          /\ CanRead(zio, os, outcome)
          /\ \E r \in {pipe_read(zio, os, outcome)} :
                /\ call' = [f |-> "read", tag |-> r.tag]
                /\ CASE r.tag = "Ok" ->
                          /\ zio' = r.zio
                          /\ os' = r.os
                          /\ pc' = "ready"
                          /\ block' = Some(r.got)
                          /\ log' = IF os.first THEN Append(log, r.got) ELSE log
                     [] r.tag = "Err" ->
                          /\ zio' = r.zio
                          /\ os' = r.os
                          /\ pc' = "ready"
                          /\ block' = None
                          /\ log' = log
                     [] r.tag = "Panic" ->
                          /\ zio' = drop(r.zio, r.os).zio
                          /\ os' = drop(r.zio, r.os).os
                          /\ pc' = "aborted"
                          /\ block' = None
                          /\ log' = log
    /\ ret' = ret
    /\ TransportUnchanged

\* zio.restart() on the Zephyr that new returned
Restart ==
    /\ pc = "ready"
    /\ \E spawnOk \in BOOLEAN :
          \E r \in {restart(zio, os, spawnOk)} :
             /\ zio' = r.zio
             /\ os' = r.os
             /\ call' = [f |-> "restart", tag |-> r.tag, was |-> zio.child]
    /\ UNCHANGED << pc, ret, block, log >>
    /\ TransportUnchanged

\* zio.kill() on the Zephyr that new returned
Kill ==
    /\ pc = "ready"
    /\ \E r \in {kill(zio, os)} :
          /\ zio' = r.zio
          /\ os' = r.os
          /\ call' = [f |-> "kill", tag |-> r.tag]
    /\ UNCHANGED << pc, ret, block, log >>
    /\ TransportUnchanged

\* the Bot, and the Zephyr in its State, go out of scope
DropBot ==
    /\ pc = "ready"
    /\ zio' = drop(zio, os).zio
    /\ os' = drop(zio, os).os
    /\ pc' = "dropped"
    /\ call' = [f |-> "drop"]
    /\ UNCHANGED << ret, block, log >>
    /\ TransportUnchanged

NextTransport ==
    NewCreate \/ NewWrite \/ NewRestart \/ NewRead \/ Emit \/ ReadNext
        \/ Restart \/ Kill \/ DropBot

TransportSpec == InitTransport /\ [][NextTransport]_vars

(***************************************************************************)
(* zephyr.rs: Zephyr::zwrite step by step (spawn of the sender, its exit,  *)
(* wait), under State::zwrite and the loop of Bot::run.  The callback tried *)
(* by tick may reply several times before it returns.                      *)
(***************************************************************************)
MaxSends == 2

\* bound on the replies of the bot that wait in the pipe of its receiver
MaxEchoes == 2

\* What the receiver prints when a notice the bot has sent is delivered back
\* to it: the sender was given the opcode, class, instance, sender and body
\* of the notice (-O, -c, -i, -S, -m), and FORMAT prints them.
Delivered(n) ==
    [io |-> TRUE, utf8 |-> TRUE,
     text |-> FormatBlock(n.opcode, n.class, n.instance, n.sender, n.body)]

\* the receiver delivers a notice under one of the subscriptions of the Zephyr
Subscribed(z, n) == \E i \in 1..Len(z.subs) : was_sent_to(n, z.subs[i])

\* The bytes one read_raw takes from a pipe that holds the blocks bs: all of
\* them, one after the other (the loop ends at a short read, not at "done").
RECURSIVE PipeText(_)
PipeText(bs) == IF bs = << >> THEN << >> ELSE Head(bs).text \o PipeText(Tail(bs))

ExitCodes == {0, 1}

\* a variant of Zephyr::zwrite that is Ok for a sender that exits with 0 only
Zephyr_zwrite_checks_status(spawned, waited, status) ==
    IF spawned /\ waited /\ status = 0 THEN "Ok" ELSE "Err"

\* Zephyr::zwrite: spawn()?, child.wait()?, Ok(()); the ExitStatus that wait
\* returns is dropped
Zephyr_zwrite(spawned, waited, status) ==
    IF spawned /\ waited THEN "Ok" ELSE "Err"

\* a variant of wait that returns while the sender runs
WaitedAtOnce(w) == TRUE

\* child.wait() returns once the sender has exited
Waited(w) == w.senders = 0

\* The RefCell around the Zephyr of a State: the field borrow of the Zephyr
\* is "none", "shared" (a Ref is out) or "mut" (a RefMut is out).
\* RefCell::borrow_mut, which panics when the cell is borrowed
borrow_mut(z) ==
    IF z.borrow = "none" THEN [zio |-> [z EXCEPT !.borrow = "mut"], tag |-> "Ok"]
    ELSE [zio |-> z, tag |-> "Panic"]

\* RefCell::borrow, which panics when the cell is mutably borrowed
borrow_shared(z) ==
    IF z.borrow # "mut" THEN [zio |-> [z EXCEPT !.borrow = "shared"], tag |-> "Ok"]
    ELSE [zio |-> z, tag |-> "Panic"]

\* the RefMut or Ref goes out of scope
release(z) == [z EXCEPT !.borrow = "none"]

\* a variant of run that keeps its RefMut while tick runs
drop_RefMut_late(z) == z

\* run: drop(zio), before the match on the notice
drop_RefMut(z) == release(z)

\* the notices run can read and tick does not discard; the callback of this
\* section does not look at the body, and one body stands for all
Incoming ==
    {o.result.val : o \in {r \in ReadOutcomes : /\ r.result.tag = "Ok"
                                                   /\ r.result.val.opcode # AUTO
                                                   /\ \E o \in Opcodes, tp \in Topics :
                                                        r.emitted.text =
                                                          FormatBlock(o, tp[1], tp[2], kid, << hi >>)}}

InitSend ==
    /\ state = [name |-> topy, class |-> help, instance |-> ai, extra |-> 0]
    /\ zio = [subs |-> << of_class(help), of_class(zoo) >>, child |-> FALSE,
              format_file |-> FALSE, sub_file |-> FALSE, borrow |-> "none"]
    /\ commands = << >>
    /\ pre_command_handlers = << >>
    /\ post_command_handlers = << "greet" >>
    /\ pc = "new"
    /\ block = None
    /\ notice = None
    /\ log = << >>
    /\ sent = << >>
    /\ failures = 0
    /\ call = NoCall
    /\ ret = None
    /\ os = Outside

SendUnchanged ==
    UNCHANGED << state, commands, pre_command_handlers,
                 post_command_handlers, log, failures >>

\* Bot::new: RefCell::new(Zephyr::new(subs).expect(..)); there is no Bot
\* unless Zephyr::new gave Ok
BotNew ==
    /\ pc = "new"
    /\ \E tmpOk, writeOk, spawnOk \in BOOLEAN, outcome \in ReadTags :
       \E r \in {Zephyr_new(zio, os, tmpOk, writeOk, spawnOk, outcome)} :
          /\ zio' = r.zio
          /\ os' = r.os
          /\ pc' = IF r.tag = "Ok" THEN "read" ELSE "aborted"
          /\ call' = IF r.tag = "Ok" THEN NoCall ELSE [f |-> "new", tag |-> r.tag]
    /\ UNCHANGED << notice, sent, ret, block >>
    /\ SendUnchanged

\* run: let mut zio = self.state.zio.borrow_mut()
BorrowZio ==
    /\ pc = "read"
    /\ \E r \in {borrow_mut(zio)} :
          /\ zio' = r.zio
          /\ pc' = IF r.tag = "Ok" THEN "reading" ELSE "aborted"
          /\ call' = IF r.tag = "Ok" THEN call
                      ELSE [f |-> "borrow_conflict", found |-> zio.borrow]
    /\ UNCHANGED << notice, sent, ret, os, block >>
    /\ SendUnchanged

\* run: zio.read() and drop(zio), which gives the RefMut back before tick.
\* The notice is of another sender or made of the replies; on Err run
\* prints the error and reads again.
\* of the bot delivered back (block keeps it for the turn), the read taking
\* what the pipe holds; tick discards it when its
\* opcode is AUTO and gives it to the callback otherwise
ReadNotice ==
    /\ pc = "reading"
    /\ \/ /\ \E n \in Incoming :
                /\ notice' = Some(n)
                /\ pc' = IF IsAuto(n) THEN "sleep" ELSE "callback"
          /\ block' = None
          /\ zio' = drop_RefMut(zio)
          /\ os' = os
          /\ call' = NoCall
       \/ /\ os.pipe # << >>
          /\ \E p \in {pipe_read(zio, os, "Ok")} :
             \E b \in {[io |-> TRUE, utf8 |-> TRUE, text |-> PipeText(p.got)]} :
             \E r \in {read(b)} :
                /\ r.tag = "Ok"
                /\ notice' = Some(r.val)
                /\ pc' = IF IsAuto(r.val) THEN "sleep" ELSE "callback"
                /\ block' = Some(b)
                /\ zio' = drop_RefMut(p.zio)
                /\ os' = p.os
          /\ call' = NoCall
       \/ \E p \in {pipe_read(zio, os, "Err")} :
             /\ notice' = None
             /\ pc' = "read"
             /\ block' = None
             /\ zio' = drop_RefMut(p.zio)
             /\ os' = p.os
             /\ call' = [f |-> "read", tag |-> p.tag]
    /\ UNCHANGED << sent, ret >>
    /\ SendUnchanged

\* the callback calls reply_to or reply_here, which come to State::zwrite
\* and to the spawn of Zephyr::zwrite
Reply ==
    /\ pc = "callback"
    /\ Len(sent) < MaxSends
    /\ \E t \in {triplet(Unwrap(notice)), location(state)} : \E body \in {hi, ok} :
          call' = [f |-> "zwrite",
                   notice |-> make_reply(t, state.name, zsig_func, body)]
    /\ pc' = "spawn"
    /\ UNCHANGED << notice, sent, ret, os, block, zio >>
    /\ SendUnchanged

\* State::zwrite: self.zio.borrow_mut(), which panics on a borrowed cell, and
\* Zephyr::zwrite: Command::new("zwrite") .. .spawn()?; the RefMut is a
\* temporary of the statement and is given back when the expect unwinds
SpawnSender ==
    /\ pc = "spawn"
    /\ \E b \in {borrow_mut(zio)} :
          IF b.tag = "Panic"
            THEN /\ zio' = zio
                 /\ os' = os
                 /\ pc' = "aborted"
                 /\ call' = [f |-> "borrow_conflict", found |-> zio.borrow]
                 /\ sent' = sent
            ELSE \E spawnOk \in BOOLEAN :
                   IF spawnOk
                     THEN /\ zio' = b.zio
                          /\ os' = [os EXCEPT !.senders = @ + 1]
                          /\ pc' = "wait"
                          /\ call' = call
                          /\ sent' = sent
                     ELSE \E e \in {zwrite(state, call.notice,
                                           Zephyr_zwrite(FALSE, FALSE, 0) = "Ok")} :
                             /\ zio' = release(b.zio)
                             /\ os' = os
                             /\ pc' = IF e.panicked THEN "aborted" ELSE "callback"
                             /\ call' = [f |-> "zwrite_done", spawned |-> FALSE,
                                         waited |-> FALSE, status |-> 0,
                                         panicked |-> e.panicked]
                             /\ sent' = sent \o e.out
    /\ ret' = None
    /\ UNCHANGED << notice, block >>
    /\ SendUnchanged

\* the sender subprocess exits with a status
SenderExits ==
    /\ os.senders > 0
    /\ os' = [os EXCEPT !.senders = @ - 1]
    /\ \E status \in ExitCodes : ret' = Some(status)
    /\ UNCHANGED << pc, notice, sent, call, block, zio >>
    /\ SendUnchanged

\* Zephyr::zwrite: child.wait()? and Ok(()), and the expect of State::zwrite;
\* the RefMut of State::zwrite is given back at the end of its statement;
\* the notice of a send that succeeded may be delivered back to the bot
WaitSender ==
    /\ pc = "wait"
    /\ zio' = release(zio)
    /\ \E waitOk \in BOOLEAN :
          /\ waitOk => Waited(os)
          /\ \E status \in {IF ret # None THEN Unwrap(ret) ELSE 0} :
             \E e \in {zwrite(state, call.notice,
                              Zephyr_zwrite(TRUE, waitOk, status) = "Ok")} :
                /\ pc' = IF e.panicked THEN "aborted" ELSE "callback"
                /\ call' = [f |-> "zwrite_done", spawned |-> TRUE,
                            waited |-> waitOk, status |-> status,
                            panicked |-> e.panicked]
                /\ sent' = sent \o e.out
                /\ os' = IF e.out # << >> /\ Len(os.pipe) < MaxEchoes
                                 /\ Subscribed(zio, e.out[1])
                            THEN [os EXCEPT !.pipe = Append(@, Delivered(e.out[1]))]
                            ELSE os
    /\ ret' = None
    /\ UNCHANGED << notice, block >>
    /\ SendUnchanged

\* the callback calls state.subs() and keeps the Ref it returns
TakeSubs ==
    /\ pc = "callback"
    /\ zio.borrow = "none"
    /\ \E r \in {borrow_shared(zio)} :
          /\ zio' = r.zio
          /\ pc' = IF r.tag = "Ok" THEN "callback" ELSE "aborted"
    /\ call' = [f |-> "subs"]
    /\ UNCHANGED << notice, sent, ret, os, block >>
    /\ SendUnchanged

\* the callback returns, its Ref if any goes out of scope, and tick returns
CallbackReturns ==
    /\ pc = "callback"
    /\ pc' = "sleep"
    /\ zio' = IF zio.borrow = "shared" THEN release(zio) ELSE zio
    /\ UNCHANGED << notice, sent, call, ret, os, block >>
    /\ SendUnchanged

\* thread::sleep(Duration::from_millis(100)), and the next turn of the loop
Pause ==
    /\ pc = "sleep"
    /\ pc' = "read"
    /\ notice' = None
    /\ block' = None
    /\ sent' = << >>
    /\ call' = NoCall
    /\ UNCHANGED << ret, os, zio >>
    /\ SendUnchanged

NextSend ==
    BotNew \/ BorrowZio \/ ReadNotice \/ Reply \/ SpawnSender \/ SenderExits \/ WaitSender
        \/ TakeSubs \/ CallbackReturns \/ Pause

SendSpec == InitSend /\ [][NextSend]_vars

(***************************************************************************)
(* Properties of Bot::run and Bot::tick, checked under Spec.               *)
(***************************************************************************)
\* a tick has run on the notice read in this turn of the loop
Ticked == pc \in {"sleep", "aborted"} /\ notice # None

\* the callbacks of the bot in the order tick goes through them
Registered ==
    [i \in 1..Len(pre_command_handlers) |-> << "pre", i >>]
        \o [i \in 1..Len(commands) |-> << "cmd", i >>]
        \o [i \in 1..Len(post_command_handlers) |-> << "post", i >>]

\* the positions of the log where a command was tried
CmdEntries == {k \in 1..Len(log) : log[k].phase = "cmd"}

\* the command passes its matcher and, for Local scope, the topic test
\* against the State the log entry e was dispatched with
Passes(cmd, e, n) ==
    /\ ShapeMatch(cmd, state, n) # None
    /\ cmd.scope = "Local" => (e.class = n.class /\ e.instance = n.instance)

topy_sit_dot == topy \o <<",", " ">> \o sit \o <<".">>

\* C1: a notice whose opcode is AUTO makes tick run no pre-handler, no
\* command and no post-handler, leave the State as it was and send nothing,
\* and run goes on to sleep.
AutoDiscarded ==
    [][(pc = "tick" /\ Unwrap(notice).opcode = AUTO)
            => (state' = state /\ log' = << >> /\ sent' = << >> /\ pc' = "sleep")]_vars

\* C1 witness: an AUTO notice was ticked though a registered pre-handler
\* would answer its class and a registered command matches its body
AutoDiscardedWitness ==
    /\ pc = "sleep"
    /\ Unwrap(notice).opcode = AUTO
    /\ Unwrap(notice).class = help
    /\ pre_command_handlers = << "greet" >>
    /\ Len(commands) > 0
    /\ commands[1].scope = "Everywhere"
    /\ ShapeMatch(commands[1], state, Unwrap(notice)) # None

\* C2: for a notice that is not AUTO the callbacks tried are an initial
\* part of pre-handlers, commands, post-handlers in registration order;
\* only the last one tried can have fired, and tick stops short of the end
\* of the list only when the last one tried fired (or the process aborted
\* in it).  So no command runs after a pre-handler has fired.
FirstMatchWins ==
    (Ticked /\ Unwrap(notice).opcode # AUTO) =>
        /\ Len(log) <= Len(Registered)
        /\ \A k \in 1..Len(log) :
              /\ << log[k].phase, log[k].index >> = Registered[k]
              /\ k < Len(log) => ~log[k].fired
        /\ Len(log) < Len(Registered) =>
              /\ Len(log) > 0
              /\ log[Len(log)].fired \/ pc = "aborted"
        /\ (\E k \in 1..Len(log) : log[k].phase = "pre" /\ log[k].fired) => CmdEntries = {}

\* C2 witness: a pre-handler fired on a notice that the first command
\* matches too, and nothing after the pre-handler was tried
FirstMatchWinsWitness ==
    /\ pc = "sleep"
    /\ Len(log) = 1
    /\ log[1].phase = "pre"
    /\ log[1].fired
    /\ Len(commands) > 0
    /\ Passes(commands[1], log[1], Unwrap(notice))

\* C3: a Local command's action is invoked only for a notice on the class
\* and instance the State had at dispatch; an Everywhere command that is
\* tried and whose shape matches is invoked whatever the notice's topic.
ScopeRespected ==
    Ticked =>
        \A k \in CmdEntries :
            /\ (commands[log[k].index].scope = "Local" /\ log[k].invoked) =>
                  /\ log[k].class = Unwrap(notice).class
                  /\ log[k].instance = Unwrap(notice).instance
            /\ (/\ commands[log[k].index].scope = "Everywhere"
                /\ ShapeMatch(commands[log[k].index], state, Unwrap(notice)) # None)
                  => log[k].invoked

\* C3 witness: a Local command whose shape matches was tried on a notice of
\* the State's class but another instance and not invoked, and an
\* Everywhere command was then invoked on that notice
ScopeRespectedWitness ==
    /\ pc = "sleep"
    /\ Len(log) = 2
    /\ log[1].phase = "cmd"
    /\ commands[1].scope = "Local"
    /\ ShapeMatch(commands[1], state, Unwrap(notice)) # None
    /\ log[1].class = Unwrap(notice).class
    /\ log[1].instance # Unwrap(notice).instance
    /\ ~log[1].invoked
    /\ log[2].phase = "cmd"
    /\ commands[2].scope = "Everywhere"
    /\ log[2].invoked
    /\ log[2].class # Unwrap(notice).class \/ log[2].instance # Unwrap(notice).instance

\* C5: in a tick of a notice that is not AUTO where no pre-handler fires,
\* at most one command action is invoked; a command tried is invoked
\* exactly when it passes its matcher and topic test, every command before
\* it was tried and not invoked, and the action receives the match; the
\* bot topy with the one command (order, Local, sit) and the body
\* "topy, sit." on its topic invokes the action once with topy, sit, no args.
OneCommandAction ==
    (/\ Ticked
     /\ Unwrap(notice).opcode # AUTO
     /\ ~\E k \in 1..Len(log) : log[k].phase = "pre" /\ log[k].fired) =>
        /\ Cardinality({k \in CmdEntries : log[k].invoked}) <= 1
        /\ \A k \in CmdEntries :
              /\ log[k].invoked <=> Passes(commands[log[k].index], log[k], Unwrap(notice))
              /\ log[k].invoked =>
                    /\ log[k].cm = ShapeMatch(commands[log[k].index], state, Unwrap(notice))
                    /\ \A j \in 1..(log[k].index - 1) :
                          \E m \in CmdEntries : log[m].index = j /\ ~log[m].invoked
              /\ \A m \in CmdEntries : log[m].index = log[k].index => m = k
        /\ (/\ commands = << SitLocal >>
            /\ pre_command_handlers = << >>
            /\ BodyText(Unwrap(notice)) = topy_sit_dot
            /\ log[1].class = Unwrap(notice).class
            /\ log[1].instance = Unwrap(notice).instance) =>
              /\ Cardinality({k \in CmdEntries : log[k].invoked}) = 1
              /\ log[1].invoked
              /\ log[1].cm = Some([referent |-> topy, command |-> sit, args |-> << >>])

\* C5 witness: the second of two commands that both match was not tried
\* because the first was invoked, on the body "topy, sit."
OneCommandActionWitness ==
    /\ pc = "sleep"
    /\ pre_command_handlers = << >>
    /\ commands = << SitLocal, SitAnywhere >>
    /\ BodyText(Unwrap(notice)) = topy_sit_dot
    /\ Len(log) = 1
    /\ log[1].invoked
    /\ log[1].cm = Some([referent |-> topy, command |-> sit, args |-> << >>])
    /\ Len(sent) = 1

\* the reply target of the callback behind the log entry e
ReplyTarget(e, n) ==
    IF e.phase # "cmd" THEN triplet(n)
    ELSE CASE commands[e.index].action = "reply_here" -> of_instance(e.class, e.instance)
           [] commands[e.index].action = "reply_to" -> triplet(n)
           [] commands[e.index].action = "reply_at_class" -> of_class(n.class)

\* C7: a reply carries the class of its target, the target's instance when
\* it has one and "personal" when it has none; a reply to a notice of
\* class help, instance ai has class help, instance ai.
ReplyKeepsTopic ==
    (Ticked /\ sent # << >>) =>
        LET target == ReplyTarget(log[Len(log)], Unwrap(notice))
            reply == sent[Len(sent)]
        IN /\ Len(sent) = 1
           /\ reply.class = target.class
           /\ target.instance # None => reply.instance = Unwrap(target.instance)
           /\ target.instance = None => reply.instance = personal
           /\ (/\ target = triplet(Unwrap(notice))
               /\ Unwrap(notice).class = help
               /\ Unwrap(notice).instance = ai)
                 => (reply.class = help /\ reply.instance = ai)

\* C7 witness: a reply at a class alone went out on instance personal
\* while the notice answered was on help, ai after the bot had moved away
ReplyKeepsTopicWitness ==
    /\ pc = "sleep"
    /\ Len(sent) = 1
    /\ sent[1].class = help
    /\ sent[1].instance = personal
    /\ Unwrap(notice).instance = ai
    /\ log[Len(log)].phase = "cmd"
    /\ commands[log[Len(log)].index].action = "reply_at_class"

\* C9: a read that returns an error dispatches nothing (no callback is
\* logged, nothing is sent, the State is kept), the error is reported, and
\* after the report the loop is back at the read.
ReadFailureSurvived ==
    [][/\ (pc = "read" /\ pc' = "report") =>
            (notice' = None /\ state' = state /\ log' = << >> /\ sent' = << >>)
       /\ pc = "report" =>
            (pc' = "read" /\ notice' = None /\ state' = state
                /\ log' = << >> /\ sent' = << >>)
       /\ (pc = "read" /\ block' # None /\ Unwrap(block').io = FALSE) => pc' = "report"]_vars

\* C9 witness: a notice was read and is about to be ticked after
\* MaxFailures failed reads in a row
ReadFailureSurvivedWitness ==
    /\ pc = "tick"
    /\ failures = MaxFailures
    /\ Unwrap(notice).opcode # AUTO

\* C11 (as the claim states it): every read but the first follows the
\* pause of 100 ms; run comes to a read from the sleep only.
PauseBeforeEveryRead == [][pc' = "read" => pc = "sleep"]_vars

\* C10 (as the claim states it): a malformed block makes read return a
\* failure, which run reports.
MalformedReported == (block # None /\ Unwrap(block) \in Malformed) => pc = "report"

(***************************************************************************)
(* Properties of the lifecycle of a Zephyr, checked under TransportSpec.   *)
(***************************************************************************)
\* Zephyr::new has returned Ok(zio)
Constructed == ret # None /\ Unwrap(ret).tag = "Ok"

\* the first read of new has failed, with an error or with a panic
FirstReadFailed == ret # None /\ Unwrap(ret).tag # "Ok" /\ Unwrap(ret).at = "read"

\* new has thrown away the first block and nothing else
DiscardsFirstBlockOnly == Constructed => Unwrap(ret).discarded = << 1 >>

\* no read of run has returned the first block
FirstBlockNeverRead == \A n \in 1..Len(log) : \A i \in 1..Len(log[n]) : log[n][i] # 1

\* the n-th read of run has returned the (n+1)-th block of the receiver
\* that new started
NthReadIsNextBlock == \A n \in 1..Len(log) : log[n] = << n + 1 >>

\* new fails when its first read fails
FailedReadFailsNew == FirstReadFailed => pc \in {"failed", "aborted"}

\* C12 (as the claim states it): new throws away exactly the first block of
\* the receiver, which no read of run returns; the n-th read of run returns
\* the (n+1)-th block; and new fails when its first read fails.
FirstBlockOnlyDiscarded ==
    /\ DiscardsFirstBlockOnly
    /\ FirstBlockNeverRead
    /\ NthReadIsNextBlock
    /\ FailedReadFailsNew

\* the lifetime of the Zephyr has ended: new has returned an error, or the
\* Zephyr was dropped with the Bot or by the unwinding of a panic
Ended == pc \in {"failed", "dropped", "aborted"}

OneReceiver ==
    /\ os.receivers <= 1
    /\ zio.child <=> os.receivers = 1
    /\ call.f = "restart" =>
          /\ call.tag = "Ok" => zio.child /\ os.receivers = 1
          /\ call.tag = "Err" => ~zio.child /\ os.receivers = 0
          /\ zio.format_file /\ zio.sub_file /\ os.files = ScratchFiles

\* a restart of a running Zephyr has succeeded
OneReceiverWitness ==
    call.f = "restart" /\ call.tag = "Ok" /\ call.was /\ zio.child /\ os.receivers = 1

(***************************************************************************)
(* Properties of the sends, checked under SendSpec.                        *)
(***************************************************************************)
\* C15: at most one sender subprocess is alive at any time; none is alive
\* when zwrite has returned to the callback, when the next one is about to
\* be spawned, and when run pauses or reads.
SendsSynchronous ==
    /\ os.senders <= 1
    /\ pc \in {"read", "callback", "spawn", "sleep"} => os.senders = 0

\* two sends of one callback have returned, one after the other
SendsSynchronousWitness ==
    pc = "callback" /\ Len(sent) >= 2 /\ call.f = "zwrite_done" /\ os.senders = 0

\* a send has returned or panicked
SendDone == call.f = "zwrite_done"

\* the send fails exactly when the sender could not be spawned or waited
\* on, whatever its exit status; a failed send has aborted the bot, a send
\* that succeeded has handed over its notice
SendOutcomeNow ==
    SendDone =>
        /\ call.panicked <=> ~(call.spawned /\ call.waited)
        /\ call.panicked => pc = "aborted"
        /\ ~call.panicked => pc # "aborted" /\ sent # << >>

\* nothing of the bot runs once it has aborted
AbortedStays ==
    pc = "aborted" => pc' = "aborted" /\ sent' = sent /\ notice' = notice /\ call' = call

\* C16: a send succeeds if and only if its sender could be spawned and
\* waited on, whatever the exit status; a failed send aborts the bot, and
\* no callback, send or tick runs after it.
SendOutcome == []SendOutcomeNow /\ [][AbortedStays]_vars

\* a send has succeeded though its sender exited with a status other than 0
SendOutcomeWitness == SendDone /\ ~call.panicked /\ call.status = 1 /\ pc = "callback"

(***************************************************************************)
(* Properties of Shape::try_match and wrap_lines, checked under LibSpec.   *)
(***************************************************************************)
\* the CommandMatch a call of try_match returned, None when it returned none
Matched == Unwrap(ret)

\* C4: a CommandMatch that try_match returns has the expected referent and
\* a command among the expected labels.  With shape order, "alice, sit"
\* matches exactly when the expected referent is alice and sit is a label,
\* or (read as command, referent) the expected referent is sit and alice
\* is a label; it does not match for bob; "alice, dance" does not match
\* with the labels {sit}.
MatchFiltered ==
    (call.f = "try_match" /\ ret # None) =>
        /\ Matched # None =>
              /\ Unwrap(Matched).referent = call.expected_referent
              /\ Unwrap(Matched).command \in call.expected_labels
        /\ (call.shape = "order" /\ call.val = alice_sit) =>
              /\ Matched # None <=>
                    \/ call.expected_referent = alice /\ sit \in call.expected_labels
                    \/ call.expected_referent = sit /\ alice \in call.expected_labels
              /\ call.expected_referent = bob => Matched = None
        /\ (call.shape = "order" /\ call.val = alice_dance /\ call.expected_labels = {sit})
              => Matched = None

\* C4 witness: order matched "alice, sit" for alice and the label sit
MatchFilteredWitness ==
    /\ call.f = "try_match"
    /\ call.shape = "order"
    /\ call.val = alice_sit
    /\ call.expected_referent = alice
    /\ call.expected_labels = {sit}
    /\ ret = Some(Some([referent |-> alice, command |-> sit, args |-> << >>]))

\* C4 (as the claim states it): with shape order, "alice, sit" matches only
\* when the expected referent is alice.
MatchOnlyForAlice ==
    (/\ call.f = "try_match"
     /\ call.shape = "order"
     /\ call.val = alice_sit
     /\ ret # None
     /\ Matched # None) => call.expected_referent = alice

\* C6 (as the claim states it): a referent, a label and arguments written
\* in a form of a shape are matched by the shape with exactly that
\* referent, label and arguments.
RoundTrips ==
    (call.f = "round_trip" /\ ret # None) =>
        Matched = Some([referent |-> call.referent, command |-> call.command,
                        args |-> call.args])

\* the words of a line
Words(line) == SelectSeq(SplitOn(line, {" "}), LAMBDA w : w # << >>)

\* C8 (as the claim states it): no line of the result that holds two or
\* more words is longer than the limit; limit 10 and "one two three" give
\* the lines "one two", "three".
WrapWithinLimit ==
    (call.f = "wrap_lines" /\ ret # None) =>
        /\ \A i \in 1..Len(Unwrap(ret)) :
              Len(Words(Unwrap(ret)[i])) >= 2 => Len(Unwrap(ret)[i]) <= call.limit
        /\ (call.limit = 10 /\ call.val = one_two_three) =>
              Unwrap(ret) = << one_two, <<"t", "h", "r", "e", "e">> >>

\* C17: move_to(to) sets the class of the State to that of the triplet and
\* its instance to that of the triplet, "personal" when the triplet has
\* none; the name, the extra data and the Zephyr of the State, with its
\* subscriptions, receiver and scratch files, are as before, and so are the
\* callbacks of the bot and the world outside.
MoveToFrame ==
    call.f = "move_to" =>
        /\ Unwrap(ret).class = call.to.class
        /\ Unwrap(ret).instance =
              (IF call.to.instance = None THEN personal ELSE call.to.instance[1])
        /\ Unwrap(ret).name = call.st.name
        /\ Unwrap(ret).extra = call.st.extra
        /\ Unwrap(ret).zio = call.st.zio
        /\ DOMAIN Unwrap(ret) = DOMAIN call.st
        /\ commands = << >> /\ pre_command_handlers = << >>
        /\ post_command_handlers = << >> /\ os = Outside

\* a move from (help, ai) to the class zoo, which has no instance
MoveToFrameWitness ==
    /\ call.f = "move_to"
    /\ call.st.class = help /\ call.st.instance = ai
    /\ call.to = of_class(zoo)
    /\ Unwrap(ret).class = zoo /\ Unwrap(ret).instance = personal

\* the patterns of the shape called, and those of them that match the text
\* and pass the referent and label filters
CalledPatterns == Shapes[call.shape]

PassingPatterns ==
    {i \in 1..Len(CalledPatterns) :
        TryPattern(CalledPatterns[i], call.expected_referent,
                   call.expected_labels, call.val) # None}

\* C18: try_match returns what the earliest pattern that matches the text
\* and passes both filters extracts, and None only when there is no such
\* pattern; order on "sit, topy" for topy and {sit} goes past its first
\* pattern, which matches the text, and matches through its second.
EarliestPassing ==
    call.f = "try_match" =>
        /\ Matched = IF PassingPatterns = {} THEN None
                     ELSE TryPattern(CalledPatterns[Min(PassingPatterns)],
                                     call.expected_referent, call.expected_labels,
                                     call.val)
        /\ (call.shape = "order" /\ call.val = sit_topy
                /\ call.expected_referent = topy /\ call.expected_labels = {sit}) =>
              /\ Min(PassingPatterns) = 2
              /\ Matched = Some([referent |-> topy, command |-> sit, args |-> << >>])

\* order on "sit, topy": the first pattern matches the text and fails the
\* referent filter, the second gives the match
EarliestPassingWitness ==
    /\ call.f = "try_match" /\ call.shape = "order" /\ call.val = sit_topy
    /\ call.expected_referent = topy /\ call.expected_labels = {sit}
    /\ Captures(order[1], sit_topy) # None
    /\ 1 \notin PassingPatterns
    /\ Matched = Some([referent |-> topy, command |-> sit, args |-> << >>])

\* try_exec has returned (its action, if any, did not panic), and with false
Returned == call.f = "try_exec" /\ ~Unwrap(ret).panicked

ReturnedFalse == Returned /\ ~Unwrap(ret).fired

\* C19: try_exec returns true if and only if it has invoked the action; when
\* it returns false the State is as it was and no notice has been sent.
ExecIffInvoked ==
    /\ Returned => (Unwrap(ret).fired <=> Unwrap(ret).invoked)
    /\ ReturnedFalse =>
          /\ ~Unwrap(ret).invoked
          /\ Unwrap(ret).st = call.st
          /\ Unwrap(ret).out = << >>

\* a Local command whose pattern and filters pass, on a notice of another
\* topic than the bot's: false, nothing done
ExecIffInvokedWitness ==
    /\ ReturnedFalse
    /\ call.cmd.scope = "Local"
    /\ ShapeMatch(call.cmd, call.st, call.n) # None
    /\ ~SameTopic(call.st, call.n)
    /\ Unwrap(ret).st = call.st /\ Unwrap(ret).out = << >>

\* the number of arguments each shape is named for
Arity ==
    [order |-> 0, unary_order |-> 1, invoke |-> 0, unary_invoke |-> 1,
     binary_invoke |-> 2]

\* C20 (as the claim states it): a match of order or invoke has no argument,
\* one of unary_order or unary_invoke has one, one of binary_invoke has two;
\* a call without argument list is no match of unary_invoke or binary_invoke.
ArgsMatchArity ==
    (call.f = "try_match" /\ call.shape \in DOMAIN Arity /\ Matched # None) =>
        Len(Unwrap(Matched).args) = Arity[call.shape]

(***************************************************************************)
(* Properties of the replies and of the loop, checked under SendSpec.      *)
(***************************************************************************)
\* the notice read in this turn is made of replies of the bot delivered back
EchoRead == block # None /\ notice # None

\* C21 (as the claim states it): every notice sent by a reply has opcode
\* AUTO and direction Outgoing, and what the bot reads of its replies
\* delivered back is discarded by tick: no callback runs on it and no reply
\* is sent in its turn.
RepliesAreAuto ==
    /\ \A i \in 1..Len(sent) : sent[i].opcode = AUTO /\ sent[i].direction = "Outgoing"
    /\ EchoRead => pc = "sleep" /\ sent = << >>

\* the part of C21 that holds: a reply read alone is discarded
OneEchoDiscarded ==
    (EchoRead /\ Unwrap(block) \in {Delivered(make_reply(tr, topy, zsig_func, b)) :
                                        tr \in {of_instance(help, ai)}, b \in {hi, ok}})
        => pc = "sleep" /\ sent = << >>

\* C22: run has given its exclusive borrow back when tick starts and every
\* zwrite has given its own back when it returns: no borrow is out when a
\* callback is entered, none but the Ref of subs while it runs, and a
\* borrow_mut finds the cell borrowed only under that Ref.
BorrowsNeverConflict ==
    /\ pc \in {"read", "sleep"} => zio.borrow = "none"
    /\ (pc = "callback" /\ call = NoCall) => zio.borrow = "none"
    /\ pc = "callback" => zio.borrow # "mut"
    /\ (pc = "callback" /\ call.f = "zwrite_done") => zio.borrow = "none"
    /\ call.f = "borrow_conflict" => call.found = "shared"

\* a callback that holds no Ref has sent twice and no borrow is out
BorrowsNeverConflictWitness ==
    /\ pc = "callback" /\ call.f = "zwrite_done" /\ ~call.panicked
    /\ Len(sent) >= 2 /\ zio.borrow = "none"

\* C23: outside construction and after a panic the Zephyr holds its
\* receiver, and one receiver runs: a Bot exists only once Zephyr::new gave
\* Ok, and neither a read, failed or not, nor anything a callback does
\* through the State takes the receiver away.
ReadsOnRunning ==
    pc \notin {"new", "aborted"} => zio.child /\ os.receivers = 1

\* a read is issued right after a failed read, replies of an earlier
\* callback waiting in the pipe
ReadsOnRunningWitness ==
    /\ pc = "reading" /\ call = [f |-> "read", tag |-> "Err"]
    /\ os.pipe # << >> /\ zio.child

====
